---- MODULE Spec2Model ----
(***************************************************************************)
(* Model of the posting API (app/posting): the PostingViewSet and the      *)
(* Tag/Step viewsets of views.py together with PostingSerializer of        *)
(* serializers.py, over the three tables Posting, Tag, Step and the two    *)
(* many-to-many link tables.  Every HTTP request is one action: the view   *)
(* code, the serializer code it calls and the ORM statements they issue.   *)
(* The ORM runs in autocommit mode (no transaction.atomic and no           *)
(* ATOMIC_REQUESTS anywhere in the source), so the statements a handler    *)
(* issued before an exception stay committed.                              *)
(***************************************************************************)
EXTENDS Integers, Sequences, FiniteSets, TLC

(* ------------------------------ bounds -------------------------------- *)
MaxPostings == 2
MaxTags == 2
MaxSteps == 1
MaxDescs == 2
MaxRequests == 3

Users == {"u1", "u2"}
Names == {"a", "b"}
Titles == {"t1", "t2"}

VARIABLES
    postings,       \* rows of Posting: [id, user, title]
    tags,           \* rows of Tag: [id, user, name]
    steps,          \* rows of Step: [id, user, name, image]
    postingTags,    \* rows of the Posting.tags link table: <<posting id, tag id>>
    postingSteps,   \* rows of the Posting.steps link table: <<posting id, step id>>
    seq,            \* the three id sequences: last id handed out per table
    last,           \* the last request and the response it got
    served          \* how many requests were served so far

vars == <<postings, tags, steps, postingTags, postingSteps, seq, last, served>>
db == <<postings, tags, steps, postingTags, postingSteps, seq>>

(* ------------------------------ payloads ------------------------------ *)
\* A request body is a dict: a function whose domain is the set of keys present.
NoBody == <<>>

DescLists == UNION {[1..n -> Names] : n \in 0..MaxDescs}

TitlePart == {NoBody} \cup {[title |-> t] : t \in Titles}
TagsPart == {NoBody} \cup {[tags |-> d] : d \in DescLists}
StepsPart == {NoBody} \cup {[steps |-> d] : d \in DescLists}
UserPart == {NoBody} \cup {[user |-> u] : u \in Users}

MaxKeys == 2
Payloads ==
    {b \in {t @@ g @@ s @@ w : t \in TitlePart, g \in TagsPart, s \in StepsPart, w \in UserPart} :
        Cardinality(DOMAIN b) <= MaxKeys}

\* dict.pop(key, default) as update() and create() use it
Pop(d, key, default) == IF key \in DOMAIN d THEN d[key] ELSE default

\* Python's None, as a value comparable with a descriptor list
None == <<"None">>

(* ------------------------------- the ORM ------------------------------ *)
\* Step.image of a step that has no uploaded image
NoImage == "none"

\* a lookup that leaves out user=auth_user
MatchingAnyUser(rows, auth_user, name) == {r \in rows : r.name = name}

\* create() in the place of get_or_create(): nothing is looked up
MatchingNothing(rows, auth_user, name) == {}

\* the rows a get_or_create(user=auth_user, name=...) lookup matches
Matching(rows, auth_user, name) == {r \in rows : r.user = auth_user /\ r.name = name}

\* an update that adds to the links it finds
ClearNothing(links, pid) == links

\* posting.tags.clear() / posting.steps.clear(): drop every link row of the posting
Clear(links, pid) == {l \in links : l[1] # pid}

\* posting.tags.add(obj) / posting.steps.add(obj)
Add(links, pid, obj) == links \cup {<<pid, obj.id>>}

\* deleting a row cascades to the link rows that name it
Cascade(links, col, id) == {l \in links : l[col] # id}

\* st = [rows, seq, links, ok]: the table, its id sequence, the link table, and
\* whether no exception was raised so far
Start(rows, lastId, links) == [rows |-> rows, seq |-> lastId, links |-> links, ok |-> TRUE]

RECURSIVE GetOrCreateTags(_, _, _, _)
GetOrCreateTags(descs, auth_user, pid, st) ==
    IF descs = <<>> \/ ~st.ok THEN st
    ELSE LET m == Matching(st.rows, auth_user, Head(descs))
         IN  IF Cardinality(m) > 1
             THEN [st EXCEPT !.ok = FALSE]      \* MultipleObjectsReturned
             ELSE LET created == (m = {})
                      tag_obj == IF created
                                 THEN [id |-> st.seq + 1, user |-> auth_user, name |-> Head(descs)]
                                 ELSE CHOOSE r \in m : TRUE
                  IN  GetOrCreateTags(Tail(descs), auth_user, pid,
                          [rows  |-> st.rows \cup {tag_obj},
                           seq   |-> IF created THEN st.seq + 1 ELSE st.seq,
                           links |-> Add(st.links, pid, tag_obj),
                           ok    |-> TRUE])

RECURSIVE GetOrCreateSteps(_, _, _, _)
GetOrCreateSteps(descs, auth_user, pid, st) ==
    IF descs = <<>> \/ ~st.ok THEN st
    ELSE LET m == Matching(st.rows, auth_user, Head(descs))
         IN  IF Cardinality(m) > 1
             THEN [st EXCEPT !.ok = FALSE]      \* MultipleObjectsReturned
             ELSE LET created == (m = {})
                      step_obj == IF created
                                  THEN [id |-> st.seq + 1, user |-> auth_user,
                                        name |-> Head(descs), image |-> NoImage]
                                  ELSE CHOOSE r \in m : TRUE
                  IN  GetOrCreateSteps(Tail(descs), auth_user, pid,
                          [rows  |-> st.rows \cup {step_obj},
                           seq   |-> IF created THEN st.seq + 1 ELSE st.seq,
                           links |-> Add(st.links, pid, step_obj),
                           ok    |-> TRUE])

(* ---------------------------- the serializer -------------------------- *)
\* a serializer that lists user among its fields
WritableFieldsWithUser == {"title", "tags", "steps", "user"}

\* PostingSerializer.Meta.fields without the read-only id; title stands for the
\* scalar columns (title, description, time_minutes, link), which update() and
\* create() treat alike
WritableFields == {"title", "tags", "steps"}

\* serializer.validated_data: the keys of the body that are fields of the serializer
ValidatedData(body) == [k \in DOMAIN body \cap WritableFields |-> body[k]]

\* serializer.is_valid(): title is required unless the update is partial (PATCH)
IsValid(body, partial) == partial \/ "title" \in DOMAIN body

\* the default of validated_data.pop('tags', ...) / pop('steps', ...) in update()
UpdateDefault == <<>>

\* for attr, value in validated_data.items(): setattr(instance, attr, value),
\* run after 'tags' and 'steps' were popped, and then instance.save()
SetAttrs(instance, validated_data) ==
    [k \in DOMAIN instance |->
        IF k \in DOMAIN validated_data \ {"tags", "steps"} THEN validated_data[k] ELSE instance[k]]

(* --------------------------- representations -------------------------- *)
Range(f) == {f[k] : k \in DOMAIN f}

\* Meta.fields of the five serializers
TagFields == <<"id", "name">>
StepFields == <<"id", "name", "image">>
StepImageFields == <<"id", "image">>
PostingFields == <<"id", "title", "description", "time_minutes", "link", "tags", "steps">>
PostingDetailFields == PostingFields \o <<"description">>

\* get_serializer_class() of the three viewsets, by action
GetSerializerClass(op) ==
    CASE op = "list" -> PostingFields
      [] op \in {"create", "retrieve", "put", "patch"} -> PostingDetailFields
      [] op \in {"list_tags", "update_tag"} -> TagFields
      [] op \in {"list_steps", "update_step"} -> StepFields
      [] op = "upload_image" -> StepImageFields
      [] OTHER -> <<>>

\* the keys of an object in serializer.data: one key per field name
Representation(op) == Range(GetSerializerClass(op))

(* ------------------------------ responses ----------------------------- *)
\* the request (op, user, id, body) and the response to it: its status, the
\* ids of the objects in it (data) and the keys each object is rendered with
Response(op, u, id, body, status, data) ==
    [op |-> op, user |-> u, id |-> id, body |-> body, status |-> status, data |-> data,
     fields |-> IF status \in {200, 201} THEN Representation(op) ELSE {}]

(* ------------------------------- the views ---------------------------- *)
\* the filter(user=self.request.user) of both get_queryset methods
OwnedBy(rows, u) == {r \in rows : r.user = u}

\* a detail lookup on Posting.objects.all()
GetObjectOfAnyUser(rows, u, id) == {r \in rows : r.id = id}

\* get_object(): the row of the requester's queryset with that primary key
GetObject(rows, u, id) == {r \in OwnedBy(rows, u) : r.id = id}

\* one more request is served (the model stops after MaxRequests requests)
Serve == served < MaxRequests /\ served' = served + 1

Init ==
    /\ postings = {} /\ tags = {} /\ steps = {}
    /\ postingTags = {} /\ postingSteps = {}
    /\ seq = [posting |-> 0, tag |-> 0, step |-> 0]
    /\ last = Response("none", "u1", 0, NoBody, 0, <<>>)
    /\ served = 0

\* POST /postings/
CreatePosting(u, body) ==
    /\ Serve
    /\ seq.posting < MaxPostings
    /\ IF ~IsValid(body, FALSE)
       THEN /\ last' = Response("create", u, 0, NoBody, 400, <<>>)
            /\ UNCHANGED db
       ELSE LET validated_data == ValidatedData(body)
                pid == seq.posting + 1
            IN  \E t \in {GetOrCreateTags(Pop(validated_data, "tags", <<>>), u, pid,
                                          Start(tags, seq.tag, postingTags))} :
                \E s \in {IF t.ok
                          THEN GetOrCreateSteps(Pop(validated_data, "steps", <<>>), u, pid,
                                                Start(steps, seq.step, postingSteps))
                          ELSE Start(steps, seq.step, postingSteps)} :
                /\ t.seq <= MaxTags /\ s.seq <= MaxSteps
                /\ postings' = postings \cup
                        {[id |-> pid, user |-> u, title |-> validated_data.title]}
                /\ tags' = t.rows /\ postingTags' = t.links
                /\ steps' = s.rows /\ postingSteps' = s.links
                /\ seq' = [posting |-> pid, tag |-> t.seq, step |-> s.seq]
                /\ last' = Response("create", u, pid, body,
                                    IF t.ok /\ s.ok THEN 201 ELSE 500, <<>>)

\* PUT /postings/{id}/ (partial = FALSE) and PATCH /postings/{id}/ (partial = TRUE)
UpdatePosting(u, pid, partial, body) ==
    LET op == IF partial THEN "patch" ELSE "put"
        found == GetObject(postings, u, pid)
    IN
    /\ Serve
    /\ IF found = {}
       THEN /\ last' = Response(op, u, pid, NoBody, 404, <<>>)
            /\ UNCHANGED db
       ELSE IF ~IsValid(body, partial)
       THEN /\ last' = Response(op, u, pid, NoBody, 400, <<>>)
            /\ UNCHANGED db
       ELSE LET instance == CHOOSE r \in found : TRUE
                validated_data == ValidatedData(body)
                tagList == Pop(validated_data, "tags", UpdateDefault)
                stepList == Pop(validated_data, "steps", UpdateDefault)
            IN  \E t \in {IF tagList # None
                           THEN GetOrCreateTags(tagList, u, pid,
                                                Start(tags, seq.tag, Clear(postingTags, pid)))
                           ELSE Start(tags, seq.tag, postingTags)} :
                \E s \in {IF t.ok /\ stepList # None
                           THEN GetOrCreateSteps(stepList, u, pid,
                                                 Start(steps, seq.step, Clear(postingSteps, pid)))
                           ELSE Start(steps, seq.step, postingSteps)} :
                /\ t.seq <= MaxTags /\ s.seq <= MaxSteps
                /\ postings' = (postings \ {instance}) \cup
                       {IF t.ok /\ s.ok THEN SetAttrs(instance, validated_data) ELSE instance}
                /\ tags' = t.rows /\ postingTags' = t.links
                /\ steps' = s.rows /\ postingSteps' = s.links
                /\ seq' = [seq EXCEPT !.tag = t.seq, !.step = s.seq]
                /\ last' = Response(op, u, pid, body, IF t.ok /\ s.ok THEN 200 ELSE 500, <<>>)

\* DELETE /postings/{id}/
DeletePosting(u, pid) ==
    LET found == GetObject(postings, u, pid) IN
    /\ Serve
    /\ IF found = {}
       THEN /\ last' = Response("delete", u, pid, NoBody, 404, <<>>)
            /\ UNCHANGED db
       ELSE /\ postings' = postings \ found
            /\ postingTags' = Cascade(postingTags, 1, pid)
            /\ postingSteps' = Cascade(postingSteps, 1, pid)
            /\ last' = Response("delete", u, pid, NoBody, 204, <<>>)
            /\ UNCHANGED <<tags, steps, seq>>

\* GET /postings/{id}/
RetrievePosting(u, pid) ==
    /\ Serve
    /\ last' = IF GetObject(postings, u, pid) = {}
               THEN Response("retrieve", u, pid, NoBody, 404, <<>>)
               ELSE Response("retrieve", u, pid, NoBody, 200, <<pid>>)
    /\ UNCHANGED db

(* ----------------------- the posting list and its filters ------------- *)
MaxTokens == 2

\* A comma-separated query value is the sequence of its tokens, which is what
\* qs.split(',') returns: "1,2" is <<"1", "2">>, "1," is <<"1", "">>, and the
\* empty string is <<"">>.
IdTokens(maxId) == {ToString(i) : i \in 1..maxId}
Tokens(maxId) == IdTokens(maxId) \cup {"abc", ""}
QueryValues(maxId) == UNION {[1..n -> Tokens(maxId)] : n \in 1..MaxTokens}

QueryParams ==
    {p \in {t @@ s : t \in {NoBody} \cup {[tags |-> q] : q \in QueryValues(MaxTags)},
                     s \in {NoBody} \cup {[steps |-> q] : q \in QueryValues(MaxSteps)}} :
        Len(Pop(p, "tags", <<>>)) + Len(Pop(p, "steps", <<>>)) <= MaxTokens}

\* int(str_id): the integer a decimal token denotes; any other token raises ValueError
IsInt(tok) == \E i \in 0..(MaxTags + MaxSteps + 1) : ToString(i) = tok
IntOf(tok) == CHOOSE i \in 0..(MaxTags + MaxSteps + 1) : ToString(i) = tok

\* _params_to_ints: [int(str_id) for str_id in qs.split(',')]; ok is FALSE when
\* one of the int() calls raises
ParamsToInts(qs) ==
    [ok |-> \A k \in DOMAIN qs : IsInt(qs[k]),
     ids |-> {IntOf(qs[k]) : k \in {j \in DOMAIN qs : IsInt(qs[j])}}]

\* the truth value of a query string: `if tags:` is False for None and for ""
Truthy(params, key) == key \in DOMAIN params /\ params[key] # <<"">>

\* A queryset is a bag of posting ids: how many result rows each posting has.
All(rows) == [id \in {r.id : r \in rows} |-> 1]

\* queryset.filter(tags__id__in=ids): an inner join with the link table, one
\* result row per matching link row
FilterIn(qs, links, ids) ==
    [id \in DOMAIN qs |-> qs[id] * Cardinality({l \in links : l[1] = id /\ l[2] \in ids})]

\* a list without the filter on the requester
FilterNoUser(qs, rows, u) == qs

\* queryset.filter(user=self.request.user)
FilterUser(qs, rows, u) ==
    [id \in DOMAIN qs |-> IF \E r \in OwnedBy(rows, u) : r.id = id THEN qs[id] ELSE 0]

\* a list without distinct()
NotDistinct(qs) == qs

\* queryset.distinct()
Distinct(qs) == [id \in DOMAIN qs |-> IF qs[id] > 0 THEN 1 ELSE 0]

\* .order_by('-id'), evaluated: the result rows, highest id first
RECURSIVE Repeat(_, _)
Repeat(x, n) == IF n = 0 THEN <<>> ELSE <<x>> \o Repeat(x, n - 1)
RECURSIVE OrderByIdDesc(_, _)
OrderByIdDesc(qs, top) ==
    IF top = 0 THEN <<>>
    ELSE (IF top \in DOMAIN qs THEN Repeat(top, qs[top]) ELSE <<>>)
         \o OrderByIdDesc(qs, top - 1)

\* PostingViewSet.get_queryset; ok is FALSE when _params_to_ints raised
GetQueryset(u, params) ==
    LET byTags == Truthy(params, "tags")
        bySteps == Truthy(params, "steps")
        tag_ids == IF byTags THEN ParamsToInts(params.tags) ELSE [ok |-> TRUE, ids |-> {}]
        step_ids == IF bySteps THEN ParamsToInts(params.steps) ELSE [ok |-> TRUE, ids |-> {}]
        q0 == All(postings)
        q1 == IF byTags THEN FilterIn(q0, postingTags, tag_ids.ids) ELSE q0
        q2 == IF bySteps THEN FilterIn(q1, postingSteps, step_ids.ids) ELSE q1
    IN  [ok |-> tag_ids.ok /\ step_ids.ok,
         rows |-> OrderByIdDesc(Distinct(FilterUser(q2, postings, u)), MaxPostings)]

\* GET /postings/?tags=..&steps=..
ListPostings(u, params) ==
    /\ Serve
    /\ \E qs \in {GetQueryset(u, params)} :
            last' = IF qs.ok THEN Response("list", u, 0, params, 200, qs.rows)
                             ELSE Response("list", u, 0, params, 500, <<>>)
    /\ UNCHANGED db

(* --------------------------- tags and steps --------------------------- *)
\* PUT/PATCH /tags/{id}/ with a name
UpdateTag(u, id, name) ==
    LET found == GetObject(tags, u, id) IN
    /\ Serve
    /\ IF found = {}
       THEN /\ last' = Response("update_tag", u, id, NoBody, 404, <<>>)
            /\ UNCHANGED db
       ELSE /\ tags' = (tags \ found) \cup {[r EXCEPT !.name = name] : r \in found}
            /\ last' = Response("update_tag", u, id, [name |-> name], 200, <<>>)
            /\ UNCHANGED <<postings, steps, postingTags, postingSteps, seq>>

\* DELETE /tags/{id}/
DeleteTag(u, id) ==
    LET found == GetObject(tags, u, id) IN
    /\ Serve
    /\ IF found = {}
       THEN /\ last' = Response("delete_tag", u, id, NoBody, 404, <<>>)
            /\ UNCHANGED db
       ELSE /\ tags' = tags \ found
            /\ postingTags' = Cascade(postingTags, 2, id)
            /\ last' = Response("delete_tag", u, id, NoBody, 204, <<>>)
            /\ UNCHANGED <<postings, steps, postingSteps, seq>>

\* PUT/PATCH /steps/{id}/ with a name (the requests modelled send no image: an
\* image is uploaded through upload_image)
UpdateStep(u, id, name) ==
    LET found == GetObject(steps, u, id) IN
    /\ Serve
    /\ IF found = {}
       THEN /\ last' = Response("update_step", u, id, NoBody, 404, <<>>)
            /\ UNCHANGED db
       ELSE /\ steps' = (steps \ found) \cup {[r EXCEPT !.name = name] : r \in found}
            /\ last' = Response("update_step", u, id, [name |-> name], 200, <<>>)
            /\ UNCHANGED <<postings, tags, postingTags, postingSteps, seq>>

\* DELETE /steps/{id}/
DeleteStep(u, id) ==
    LET found == GetObject(steps, u, id) IN
    /\ Serve
    /\ IF found = {}
       THEN /\ last' = Response("delete_step", u, id, NoBody, 404, <<>>)
            /\ UNCHANGED db
       ELSE /\ steps' = steps \ found
            /\ postingSteps' = Cascade(postingSteps, 2, id)
            /\ last' = Response("delete_step", u, id, NoBody, 204, <<>>)
            /\ UNCHANGED <<postings, tags, postingTags, seq>>

(* ------------------------ the tag and step lists ---------------------- *)
\* the values of the assigned_only query parameter; NoBody is the request
\* without the parameter
AssignedOnlyValues == {"0", "1", "abc"}
AttrParams == {NoBody} \cup {[assigned_only |-> v] : v \in AssignedOnlyValues}

\* a list that always restricts to assigned records
AssignedAlways(params) == [ok |-> TRUE, value |-> TRUE]

\* bool(int(query_params.get('assigned_only', 0))); ok is FALSE when int() raises
AssignedOnly(params) ==
    LET v == Pop(params, "assigned_only", "0")
    IN  [ok |-> IsInt(v), value |-> IsInt(v) /\ IntOf(v) # 0]

\* a list that ignores assigned_only
AssignedIgnored(qs, links) == qs

\* queryset.filter(posting__isnull=False): a join with the link table, one
\* result row per link row of the record
Assigned(qs, links) ==
    [id \in DOMAIN qs |-> qs[id] * Cardinality({l \in links : l[2] = id})]

\* the position of a name in the collation order
NameRank(name) == CASE name = "a" -> 1 [] name = "b" -> 2

RECURSIVE Total(_, _)
Total(qs, top) ==
    IF top = 0 THEN 0
    ELSE (IF top \in DOMAIN qs THEN qs[top] ELSE 0) + Total(qs, top - 1)

\* .order_by('-name'), evaluated: every order of the result rows in which no
\* row precedes a row of a greater name (rows of equal names come in any order)
OrderByNameDesc(qs, rows, top) ==
    {s \in [1..Total(qs, top) -> DOMAIN qs] :
        /\ \A id \in DOMAIN qs : Cardinality({i \in DOMAIN s : s[i] = id}) = qs[id]
        /\ \A i, j \in DOMAIN s : i < j =>
                \A ri, rj \in rows : (ri.id = s[i] /\ rj.id = s[j]) =>
                    NameRank(rj.name) <= NameRank(ri.name)}

\* BasePostingAttrViewSet.get_queryset over the table of the viewset; ok is
\* FALSE when int() raised
GetAttrQueryset(rows, links, u, params, top) ==
    LET assigned_only == AssignedOnly(params)
        q0 == All(rows)
        q1 == IF assigned_only.value THEN Assigned(q0, links) ELSE q0
    IN  [ok |-> assigned_only.ok,
         results |-> OrderByNameDesc(Distinct(FilterUser(q1, rows, u)), rows, top)]

\* GET /tags/?assigned_only=..
ListTags(u, params) ==
    /\ Serve
    /\ \E qs \in {GetAttrQueryset(tags, postingTags, u, params, MaxTags)} :
            IF qs.ok
            THEN \E data \in qs.results : last' = Response("list_tags", u, 0, params, 200, data)
            ELSE last' = Response("list_tags", u, 0, params, 500, <<>>)
    /\ UNCHANGED db

\* GET /steps/?assigned_only=..
ListSteps(u, params) ==
    /\ Serve
    /\ \E qs \in {GetAttrQueryset(steps, postingSteps, u, params, MaxSteps)} :
            IF qs.ok
            THEN \E data \in qs.results : last' = Response("list_steps", u, 0, params, 200, data)
            ELSE last' = Response("list_steps", u, 0, params, 500, <<>>)
    /\ UNCHANGED db

(* ----------------------------- upload_image --------------------------- *)
\* the files a client can send: two images and a file that is not an image
Images == {"i1", "i2"}
Files == Images \cup {"notanimage"}
ImagePayloads == {NoBody} \cup {[image |-> f] : f \in Files}

\* a serializer that takes any file for an image
IsAnyFile(data) == "image" \in DOMAIN data

\* StepImageSerializer.is_valid(): image is required and has to be an image
IsValidImage(data) == "image" \in DOMAIN data /\ data.image \in Images

\* POST /steps/{id}/upload_image/
UploadImage(u, id, data) ==
    LET found == GetObject(steps, u, id) IN
    /\ Serve
    /\ IF found = {}
       THEN /\ last' = Response("upload_image", u, id, NoBody, 404, <<>>)
            /\ UNCHANGED db
       ELSE IF IsValidImage(data)
       THEN /\ steps' = (steps \ found) \cup {[r EXCEPT !.image = data.image] : r \in found}
            /\ last' = Response("upload_image", u, id, data, 200, <<id>>)
            /\ UNCHANGED <<postings, tags, postingTags, postingSteps, seq>>
       ELSE /\ last' = Response("upload_image", u, id, data, 400, <<>>)
            /\ UNCHANGED db

Next ==
    \/ \E u \in Users, body \in Payloads : CreatePosting(u, body)
    \/ \E u \in Users, pid \in 1..MaxPostings, partial \in BOOLEAN, body \in Payloads :
            UpdatePosting(u, pid, partial, body)
    \/ \E u \in Users, pid \in 1..MaxPostings : DeletePosting(u, pid)
    \/ \E u \in Users, pid \in 1..MaxPostings : RetrievePosting(u, pid)
    \/ \E u \in Users, params \in QueryParams : ListPostings(u, params)
    \/ \E u \in Users, id \in 1..MaxTags, name \in Names : UpdateTag(u, id, name)
    \/ \E u \in Users, id \in 1..MaxTags : DeleteTag(u, id)
    \/ \E u \in Users, id \in 1..MaxSteps, name \in Names : UpdateStep(u, id, name)
    \/ \E u \in Users, id \in 1..MaxSteps : DeleteStep(u, id)
    \/ \E u \in Users, params \in AttrParams : ListTags(u, params)
    \/ \E u \in Users, params \in AttrParams : ListSteps(u, params)
    \/ \E u \in Users, id \in 1..MaxSteps, data \in ImagePayloads : UploadImage(u, id, data)

Spec == Init /\ [][Next]_vars

(* ====================================================================== *)
(*                               the claims                               *)
(* ====================================================================== *)
\* the ids a link table links to a posting
Linked(links, pid) == {l[2] : l \in {x \in links : x[1] = pid}}

\* the rows of a table owned by u whose name is one of names
OwnNamed(rows, u, names) == {r \in rows : r.user = u /\ r.name \in names}

IsUpdate(r) == r.op \in {"put", "patch"}

\* the names a body submits for a relation (none when the key is absent)
Submitted(body, key) == IF key \in DOMAIN body THEN Range(body[key]) ELSE {}

(* C1: a posting update whose payload has no `tags` key leaves the posting's   *)
(* linked tags as they were, and one without `steps` leaves its linked steps   *)
(* as they were.                                                               *)
C1_AbsentRelationUntouched ==
    [][(IsUpdate(last') /\ last'.status = 200) =>
        /\ "tags" \notin DOMAIN last'.body =>
                Linked(postingTags', last'.id) = Linked(postingTags, last'.id)
        /\ "steps" \notin DOMAIN last'.body =>
                Linked(postingSteps', last'.id) = Linked(postingSteps, last'.id)]_vars

RelationReplaced(rows, links, key) ==
    key \in DOMAIN last.body =>
        /\ Linked(links, last.id) =
                {r.id : r \in OwnNamed(rows, last.user, Range(last.body[key]))}
        /\ Cardinality(Linked(links, last.id)) = Cardinality(Range(last.body[key]))
        /\ last.body[key] = <<>> => Linked(links, last.id) = {}

(* C2: after a successful posting update whose payload has the `tags` (resp.   *)
(* `steps`) key, the posting is linked to exactly the requester's records      *)
(* named by the submitted descriptors, one per distinct name, whatever was     *)
(* linked before; an empty list leaves no linked record.                       *)
C2_PresentRelationReplaced ==
    (IsUpdate(last) /\ last.status = 200) =>
        /\ RelationReplaced(tags, postingTags, "tags")
        /\ RelationReplaced(steps, postingSteps, "steps")

\* an update that named one tag unlinked the posting's other tag
C2_Witness ==
    /\ last.op = "patch" /\ last.status = 200
    /\ "tags" \in DOMAIN last.body /\ Cardinality(Range(last.body.tags)) = 1
    /\ Cardinality(Linked(postingTags, last.id)) = 1
    /\ \E r \in tags : /\ r.user = last.user
                       /\ r.name \notin Range(last.body.tags)
                       /\ r.id \notin Linked(postingTags, last.id)
                       /\ r.id < seq.tag

CreateResolves(rows, rowsAfter, linksAfter, key) ==
    LET names == Submitted(last'.body, key)
        u == last'.user
        unmatched == {n \in names : OwnNamed(rows, u, {n}) = {}}
        linked == {r \in rowsAfter : r.id \in Linked(linksAfter, last'.id)}
    IN  /\ rows \subseteq rowsAfter
        /\ Cardinality(rowsAfter \ rows) = Cardinality(unmatched)
        /\ \A r \in rowsAfter \ rows : r.user = u /\ r.name \in unmatched
        /\ Cardinality(linked) = Cardinality(names)
        /\ \A n \in names : Cardinality(OwnNamed(linked, u, {n})) = 1
        /\ \A n \in names \ unmatched : OwnNamed(rows, u, {n}) \subseteq linked

(* C3: a successful posting create reuses, for every submitted descriptor, the *)
(* requester's existing record of that name and inserts a record only for a    *)
(* name the requester had no record of: the table grows by exactly one row per *)
(* distinct unmatched name, and the new posting is linked to exactly one       *)
(* record per distinct name.                                                   *)
C3_CreateReusesOrInserts ==
    [][(last'.op = "create" /\ last'.status = 201) =>
        /\ CreateResolves(tags, tags', postingTags', "tags")
        /\ CreateResolves(steps, steps', postingSteps', "steps")]_vars

\* a create that named two tags linked one older record and one it inserted
C3_Witness ==
    /\ last.op = "create" /\ last.status = 201
    /\ "tags" \in DOMAIN last.body /\ Cardinality(Range(last.body.tags)) = 2
    /\ Cardinality(Linked(postingTags, last.id)) = 2
    /\ \E r \in tags : r.id \in Linked(postingTags, last.id)
                       /\ \E l \in postingTags : l[2] = r.id /\ l[1] < last.id
    /\ seq.tag \in Linked(postingTags, last.id)
    /\ seq.tag \notin Linked(postingTags, 1)

LinksWithinOwner(rows, links) ==
    \A l \in links : \E p \in postings, r \in rows :
        p.id = l[1] /\ r.id = l[2] /\ r.user = p.user

(* C4: every tag and every step linked to a posting exists and is owned by    *)
(* the posting's owner; a posting never links a record of another user, also   *)
(* when the other user has a record of the submitted name.                     *)
C4_LinksWithinOwner ==
    /\ LinksWithinOwner(tags, postingTags)
    /\ LinksWithinOwner(steps, postingSteps)

\* a request named a tag that only the other user had: it inserted and linked
\* a tag of the requester
C4_Witness ==
    /\ last.op \in {"create", "put", "patch"} /\ last.status \in {200, 201}
    /\ \E mine \in tags, theirs \in tags :
        /\ mine.user = last.user /\ theirs.user # last.user
        /\ mine.name = theirs.name /\ theirs.id < mine.id
        /\ mine.id = seq.tag
        /\ Linked(postingTags, last.id) = {mine.id}

Unfiltered(params) == \A k \in DOMAIN params : params[k] = <<"">>

OwnPostingIds(u) == {p.id : p \in {q \in postings : q.user = u}}

(* C5: an unfiltered posting list requested by a user returns every posting    *)
(* that user owns and no posting of another user.                              *)
C5_ListLimitedToUser ==
    /\ (last.op = "list" /\ Unfiltered(last.body)) =>
            last.status = 200 /\ Range(last.data) = OwnPostingIds(last.user)
    /\ \A u \in Users : Range(GetQueryset(u, NoBody).rows) = OwnPostingIds(u)

\* a user listed their postings while the other user had one too
C5_Witness ==
    /\ last.op = "list" /\ Unfiltered(last.body) /\ last.status = 200
    /\ last.data # <<>>
    /\ \E p \in postings : p.user # last.user

Given(params, key) == key \in DOMAIN params /\ params[key] # <<"">>

IdsNamed(params, key, maxId) ==
    {i \in 1..maxId : ToString(i) \in Range(params[key])}

FilteredPostingIds(u, params) ==
    {p.id : p \in {q \in postings :
        /\ q.user = u
        /\ Given(params, "tags") =>
                Linked(postingTags, q.id) \cap IdsNamed(params, "tags", MaxTags) # {}
        /\ Given(params, "steps") =>
                Linked(postingSteps, q.id) \cap IdsNamed(params, "steps", MaxSteps) # {}}}

(* C6: a posting list filtered by tag ids T and/or step ids S returns exactly   *)
(* the requester's postings that have a linked tag in T (when tags is given)   *)
(* and a linked step in S (when steps is given), each exactly once.            *)
C6_FilterExactAndOnce ==
    (last.op = "list" /\ last.status = 200) =>
        /\ Range(last.data) = FilteredPostingIds(last.user, last.body)
        /\ Len(last.data) = Cardinality(FilteredPostingIds(last.user, last.body))

\* a posting linked to both listed tags came back once, and the requester's
\* other posting, linked to neither, did not come back
C6_Witness ==
    /\ last.op = "list" /\ last.status = 200
    /\ Given(last.body, "tags") /\ Cardinality(IdsNamed(last.body, "tags", MaxTags)) = 2
    /\ Len(last.data) = 1
    /\ IdsNamed(last.body, "tags", MaxTags) \subseteq Linked(postingTags, last.data[1])
    /\ \E p \in postings : p.user = last.user /\ p.id # last.data[1]

(* C7: a posting update that ends in an error leaves the posting's links, its  *)
(* scalar fields and the Tag and Step rows as they were before the request.    *)
C7_FailedUpdateChangesNothing ==
    [][(IsUpdate(last') /\ last'.status # 200) =>
        UNCHANGED <<postings, tags, steps, postingTags, postingSteps>>]_vars

NotAnInteger(tok) == \A i \in 0..(MaxTags + MaxSteps + 1) : ToString(i) # tok

(* C8: a posting list whose tags or steps parameter holds a token that is not  *)
(* an integer is answered with a client error (4xx).                           *)
C8_BadTokenIsClientError ==
    (/\ last.op = "list"
     /\ \E k \in DOMAIN last.body : \E i \in DOMAIN last.body[k] :
            NotAnInteger(last.body[k][i]) /\ last.body[k] # <<"">>)
        => last.status \in 400..499

(* C9: a retrieve, update or delete of a posting that another user owns is     *)
(* answered 404 and changes nothing; the posting still exists.                 *)
C9_ForeignPostingIs404 ==
    [][(/\ last'.op \in {"retrieve", "put", "patch", "delete"}
        /\ \E p \in postings : p.id = last'.id /\ p.user # last'.user)
        => /\ last'.status = 404
           /\ UNCHANGED <<postings, tags, steps, postingTags, postingSteps, seq>>]_vars

\* a delete of the other user's posting was answered 404 and the posting is there
C9_Witness ==
    /\ last.op = "delete" /\ last.status = 404
    /\ \E p \in postings : p.id = last.id /\ p.user # last.user

StillListed(rows, links, top) ==
    \A r \in rows :
        \A data \in GetAttrQueryset(rows, links, r.user, NoBody, top).results :
            r.id \in Range(data)

(* C11: a posting update (which clears or replaces the posting's tag and step  *)
(* links) and a posting delete never delete a Tag or Step record: the records  *)
(* before the request are all there after it, and every record, linked or not, *)
(* is in the list its owner gets from GET /tags/ or GET /steps/.               *)
C11_ClearingKeepsRecords ==
    /\ [][last'.op \in {"put", "patch", "delete"} =>
            tags \subseteq tags' /\ steps \subseteq steps']_vars
    /\ [](/\ StillListed(tags, postingTags, MaxTags)
          /\ StillListed(steps, postingSteps, MaxSteps))

\* the request after the create was a PATCH with an empty tag list: the tag the
\* create inserted has no link left and is still a row of the table
C11_Witness ==
    /\ served = 2 /\ last.op = "patch" /\ last.status = 200
    /\ "tags" \in DOMAIN last.body /\ last.body.tags = <<>>
    /\ tags # {} /\ postingTags = {}
    /\ \A r \in tags : r.user = last.user

ListedExactly(rows, links) ==
    LET own == {r.id : r \in {x \in rows : x.user = last.user}}
        linked == {id \in own : \E l \in links : l[2] = id}
        assigned_only == IF "assigned_only" \in DOMAIN last.body
                         THEN last.body.assigned_only ELSE "0"
    IN  /\ last.status = 200
        /\ assigned_only = "1" => Range(last.data) = linked
        /\ assigned_only = "0" => Range(last.data) = own
        /\ Len(last.data) = Cardinality(Range(last.data))

(* C12: a tag or step list with assigned_only=1 returns exactly the            *)
(* requester's records that have a link to a posting, each once whatever the   *)
(* number of its links; with assigned_only=0 or without the parameter it       *)
(* returns all of the requester's records, each once; no record of another     *)
(* user is returned.                                                           *)
C12_AssignedOnlyList ==
    /\ (last.op = "list_tags" /\ Range(last.body) \subseteq {"0", "1"}) =>
            ListedExactly(tags, postingTags)
    /\ (last.op = "list_steps" /\ Range(last.body) \subseteq {"0", "1"}) =>
            ListedExactly(steps, postingSteps)

\* a tag linked to two postings came back once from a list with assigned_only=1
C12_Witness ==
    /\ last.op = "list_tags" /\ last.status = 200
    /\ "assigned_only" \in DOMAIN last.body /\ last.body.assigned_only = "1"
    /\ Len(last.data) = 1
    /\ Cardinality({l \in postingTags : l[2] = last.data[1]}) = 2

(* C13: an upload_image request on a step of the requester whose payload is    *)
(* not a valid image (no image, or a file that is not an image) is answered    *)
(* 400 and leaves every step, image included, as it was; one with a valid      *)
(* image is answered 200 and sets the image of that step and nothing else.     *)
C13_UploadImage ==
    [][(/\ last'.op = "upload_image"
        /\ \E r \in steps : r.id = last'.id /\ r.user = last'.user) =>
        IF "image" \in DOMAIN last'.body /\ last'.body.image \in Images
        THEN /\ last'.status = 200
             /\ steps' = {IF r.id = last'.id
                          THEN [id |-> r.id, user |-> r.user, name |-> r.name,
                                image |-> last'.body.image]
                          ELSE r : r \in steps}
             /\ UNCHANGED <<postings, tags, postingTags, postingSteps>>
        ELSE /\ last'.status = 400
             /\ UNCHANGED <<postings, tags, steps, postingTags, postingSteps>>]_vars

\* a file that is not an image was refused while the step had an image, and the
\* step still has that image
C13_Witness ==
    /\ last.op = "upload_image" /\ last.status = 400
    /\ "image" \in DOMAIN last.body /\ last.body.image = "notanimage"
    /\ \E r \in steps : r.id = last.id /\ r.user = last.user /\ r.image \in Images

(* C14: a posting in the response of the list action has no `description` key, *)
(* and the posting in the response of retrieve, create and update has one.     *)
C14_ListOmitsDescription ==
    /\ (last.op = "list" /\ last.status = 200 /\ last.data # <<>>) =>
            "description" \notin last.fields
    /\ (last.op \in {"retrieve", "create", "put", "patch"} /\ last.status \in {200, 201}) =>
            "description" \in last.fields

(* C15: in every reachable state the lookup of get_or_create for a name        *)
(* matches at most one record of a user, and no posting create or update       *)
(* fails on an ambiguous match.                                                *)
C15_LookupMatchesAtMostOne ==
    /\ \A u \in Users, n \in Names :
            /\ Cardinality(Matching(tags, u, n)) <= 1
            /\ Cardinality(Matching(steps, u, n)) <= 1
    /\ last.op \in {"create", "put", "patch"} => last.status # 500

====
